---- MODULE Spec2Model ----
(***************************************************************************)
(* Model of utils/image-crop.py: detect_bg_color, autocrop and main.       *)
(*                                                                         *)
(* An image is a record [mode, w, h, px]; px maps <<row, col>> (0-based,   *)
(* as numpy indexes it) to a pixel, a tuple of 8-bit channel values.       *)
(* Images live in a heap of objects (a sequence indexed by reference), so  *)
(* that "the same object" and "an equal copy" are different things.        *)
(***************************************************************************)
EXTENDS Integers, Sequences, FiniteSets, TLC

VARIABLES heap,      \* the image objects: reference -> image
          calls,     \* the autocrop calls made so far, each with its locals at return
          stderr,    \* lines written to sys.stderr
          stdout,    \* lines written to sys.stdout
          pc,        \* position of the run
          argv,      \* the command line as given (main only)
          args,      \* the parsed command line (main only)
          fs,        \* the file system: path string -> file content (main only)
          locals,    \* main's locals: img, cropped, dst
          exitStatus \* the process's exit status, -1 while it runs

vars == <<heap, calls, stderr, stdout, pc, argv, args, fs, locals, exitStatus>>

----------------------------------------------------------------------------
(* Bounds of the model *)

\* largest number of pixels (h * w) of an input image of the autocrop runs
MaxPixels == 6

\* largest number of pixels (h * w) of an input image of two colours only
\* (white and black): room for a 3 x 3 image, the smallest with an interior
MaxTwoTonePixels == 9

\* largest number of pixels (h * w) of an image file of the command-line runs
MainMaxPixels == 3

----------------------------------------------------------------------------
(* Values *)

None == "None"

WARNING == "Warning: entire image matches background color, returning original"

\* -t/--tolerance default
DefaultTolerance == 10

Tolerances == {0, DefaultTolerance}

White == <<255, 255, 255>>
Black == <<0, 0, 0>>
\* differs from White by exactly DefaultTolerance, on one channel only
Near  == <<255, 255, 245>>

Modes == {"RGB", "L"}

\* the pixel values the model's images are drawn from, per PIL mode
Palette(mode) == IF mode = "RGB" THEN {White, Near, Black}
                 ELSE {<<255>>, <<245>>, <<0>>}

Grid(h, w) == (0 .. h - 1) \X (0 .. w - 1)

Shapes(minPixels, maxPixels) ==
  { s \in (1 .. maxPixels) \X (1 .. maxPixels) :
      minPixels <= s[1] * s[2] /\ s[1] * s[2] <= maxPixels }

\* every image of either mode, of any shape of at most maxPixels pixels
Images(maxPixels) ==
  UNION { UNION { { [mode |-> m, w |-> s[2], h |-> s[1], px |-> px] :
                      px \in [Grid(s[1], s[2]) -> Palette(m)] } :
                  m \in Modes } :
          s \in Shapes(1, maxPixels) }

\* every RGB image of white and black pixels only, of any shape of more than
\* minPixels and at most maxPixels pixels
TwoToneImages(minPixels, maxPixels) ==
  UNION { { [mode |-> "RGB", w |-> s[2], h |-> s[1], px |-> px] :
              px \in [Grid(s[1], s[2]) -> {White, Black}] } :
          s \in Shapes(minPixels + 1, maxPixels) }

Abs(x) == IF x < 0 THEN -x ELSE x

MinOf(S) == CHOOSE x \in S : \A y \in S : x <= y
MaxOf(S) == CHOOSE x \in S : \A y \in S : x >= y

----------------------------------------------------------------------------
(* numpy and PIL, as autocrop uses them *)

\* image.convert("RGB"): an L pixel v becomes (v, v, v), an RGB pixel is copied
ConvertRGB(mode, p) == IF mode = "L" THEN <<p[1], p[1], p[1]>> ELSE p

\* np.array(image.convert("RGB")): a new h x w x 3 uint8 array
ToArray(img) ==
  [h |-> img.h, w |-> img.w,
   px |-> [c \in Grid(img.h, img.w) |-> ConvertRGB(img.mode, img.px[c])]]

\* the number of values of an 8-bit and of a 16-bit integer
Range8 == 2^8
Range16 == 2^16

\* a value stored in a signed 16-bit integer (two's complement wraparound)
Int16(x) == ((x + Range16 \div 2) % Range16) - Range16 \div 2

\* a value stored in an unsigned 8-bit integer
UInt8(x) == x % Range8

\* the number of positions of sequence s holding v: list.count
Count(s, v) == Cardinality({i \in DOMAIN s : s[i] = v})

\* the sequences that enumerate set S once each: the orders in which
\* iterating a Python set may yield its elements (a set is unordered)
Orders(S) ==
  { o \in [1 .. Cardinality(S) -> S] : \A x \in S : \E i \in DOMAIN o : o[i] = x }

\* max(order, key=...count): the first element, in iteration order, whose
\* count among the corners is maximal
MaxByCount(order, corners) ==
  order[MinOf({ i \in DOMAIN order :
                  \A j \in DOMAIN order :
                     Count(corners, order[i]) >= Count(corners, order[j]) })]

\* the pixel of img at <<row, col>>; PIL fills what lies outside with zeros
PixelAt(img, c) ==
  IF c \in DOMAIN img.px THEN img.px[c]
  ELSE IF img.mode = "L" THEN <<0>> ELSE Black

\* image.crop((left, upper, right, lower)): a new image of size
\* (right - left) x (lower - upper) whose pixel (i, j) is the source's
\* pixel (upper + i, left + j)
PILCrop(img, rect) ==
  LET w == rect[3] - rect[1]
      h == rect[4] - rect[2]
  IN [mode |-> img.mode, w |-> w, h |-> h,
      px |-> [c \in Grid(h, w) |-> PixelAt(img, <<rect[2] + c[1], rect[1] + c[2]>>)]]

----------------------------------------------------------------------------
(* detect_bg_color *)

\* the four corner pixels, as tuples, in the order the list is built
Corners(arr) ==
  << arr.px[<<0, 0>>],
     arr.px[<<0, arr.w - 1>>],
     arr.px[<<arr.h - 1, 0>>],
     arr.px[<<arr.h - 1, arr.w - 1>>] >>

\* detect_bg_color taking the least common corner colour (min for max)
detect_bg_color_least(arr) ==
  LET corners == Corners(arr)
  IN { col \in { corners[i] : i \in 1 .. 4 } :
         \A other \in { corners[i] : i \in 1 .. 4 } :
            Count(corners, col) <= Count(corners, other) }

\* detect_bg_color taking the mean of the four corners, channel by channel
detect_bg_color_mean(arr) ==
  LET corners == Corners(arr)
  IN { [ch \in 1 .. 3 |->
          (corners[1][ch] + corners[2][ch] + corners[3][ch] + corners[4][ch]) \div 4] }

\* the values detect_bg_color(arr) may return: max(set(corners),
\* key=corners.count), for every order the set may be iterated in
detect_bg_color(arr) ==
  LET corners == Corners(arr)
  IN { MaxByCount(o, corners) : o \in Orders({ corners[i] : i \in 1 .. 4 }) }

----------------------------------------------------------------------------
(* autocrop *)

\* the difference computed without widening: uint8 arithmetic wraps around
AbsDiffUInt8(p, bg, ch) == UInt8(p[ch] - bg[ch])

\* one channel of np.abs(arr.astype(np.int16) - bg), bg being int16 too
AbsDiff(p, bg, ch) == Int16(Abs(Int16(Int16(p[ch]) - Int16(bg[ch]))))

\* the mask with >= for >
ForegroundMaskInclusive(arr, bg, tolerance) ==
  [c \in DOMAIN arr.px |-> \E ch \in 1 .. 3 : AbsDiff(arr.px[c], bg, ch) >= tolerance]

\* the mask with < for >: it marks the pixels close to the background
ForegroundMaskInverted(arr, bg, tolerance) ==
  [c \in DOMAIN arr.px |-> \E ch \in 1 .. 3 : AbsDiff(arr.px[c], bg, ch) < tolerance]

\* mask = np.any(diff > tolerance, axis=2)
ForegroundMask(arr, bg, tolerance) ==
  [c \in DOMAIN arr.px |-> \E ch \in 1 .. 3 : AbsDiff(arr.px[c], bg, ch) > tolerance]

\* np.argwhere(mask): the <<row, col>> of every True cell
argwhere(mask) == { c \in DOMAIN mask : mask[c] }

\* the box with the unpacking written x0, y0 = ... and x1, y1 = ...
BoundingBoxTransposed(coords) ==
  << MinOf({ c[1] : c \in coords }), MinOf({ c[2] : c \in coords }),
     MaxOf({ c[1] : c \in coords }), MaxOf({ c[2] : c \in coords }) >>

\* y0, x0 = coords.min(axis=0); y1, x1 = coords.max(axis=0), as <<x0, y0, x1, y1>>
BoundingBox(coords) ==
  << MinOf({ c[2] : c \in coords }), MinOf({ c[1] : c \in coords }),
     MaxOf({ c[2] : c \in coords }), MaxOf({ c[1] : c \in coords }) >>

\* the rectangle without the + 1: the last column and row are cut away
CropRectExclusive(box) == << box[1], box[2], box[3], box[4] >>

\* the rectangle with rows and columns exchanged
CropRectSwapped(box) == << box[2], box[1], box[4] + 1, box[3] + 1 >>

\* the rectangle handed to image.crop: (x0, y0, x1 + 1, y1 + 1)
CropRect(box) == << box[1], box[2], box[3] + 1, box[4] + 1 >>

\* `return image`: the caller gets the object it passed in
ReturnOriginal(hp, ref) == [heap |-> hp, ref |-> ref]

\* a crop that overwrites the image it was given and returns it
ReturnCropInPlace(hp, ref, rect) ==
  [heap |-> [hp EXCEPT ![ref] = PILCrop(hp[ref], rect)], ref |-> ref]

\* `return image.crop(...)`: crop builds a new Image object
ReturnCrop(hp, ref, rect) ==
  [heap |-> Append(hp, PILCrop(hp[ref], rect)), ref |-> Len(hp) + 1]

\* autocrop(image, tolerance) with the background bg that detect_bg_color
\* returned: the locals at return, the heap after it and what was printed
autocropWith(hp, ref, tolerance, bg) ==
  LET arr    == ToArray(hp[ref])
      mask   == ForegroundMask(arr, bg, tolerance)
      coords == argwhere(mask)
  IN IF coords = {}
     THEN LET r == ReturnOriginal(hp, ref)
          IN [image |-> ref, tolerance |-> tolerance, bg |-> bg, coords |-> coords,
              box |-> None, rect |-> None, warned |-> TRUE,
              heap |-> r.heap, result |-> r.ref]
     ELSE LET box == BoundingBox(coords)
              r   == ReturnCrop(hp, ref, CropRect(box))
          IN [image |-> ref, tolerance |-> tolerance, bg |-> bg, coords |-> coords,
              box |-> box, rect |-> CropRect(box), warned |-> FALSE,
              heap |-> r.heap, result |-> r.ref]

\* every outcome autocrop(image, tolerance) may have; on an image without
\* pixels img_array[0, 0] raises IndexError and the call has no outcome
autocrop(hp, ref, tolerance) ==
  IF hp[ref].w < 1 \/ hp[ref].h < 1 THEN {}
  ELSE { autocropWith(hp, ref, tolerance, bg) : bg \in detect_bg_color(ToArray(hp[ref])) }

\* what a call leaves in `calls`: its locals, without the heap
CallRecord(out) ==
  [image |-> out.image, tolerance |-> out.tolerance, bg |-> out.bg,
   coords |-> out.coords, box |-> out.box, rect |-> out.rect,
   warned |-> out.warned, result |-> out.result]

Printed(out) == IF out.warned THEN <<WARNING>> ELSE <<>>

----------------------------------------------------------------------------
(* The autocrop runs: autocrop applied to an image, then to its own output *)

NoArgs == [input |-> None, output |-> <<>>, tolerance |-> DefaultTolerance]
NoArgv == [input |-> None, output |-> <<>>, tolerance |-> <<>>]
NoLocals == [img |-> 0, cropped |-> 0, dst |-> None]
EmptyFs == [p \in {} |-> None]

Init ==
  /\ \E img \in Images(MaxPixels) \cup TwoToneImages(MaxPixels, MaxTwoTonePixels) :
       heap = <<img>>
  /\ calls = <<>>
  /\ stderr = <<>>
  /\ stdout = <<>>
  /\ pc = "call"
  /\ argv = NoArgv
  /\ args = NoArgs
  /\ fs = EmptyFs
  /\ locals = NoLocals
  /\ exitStatus = -1

\* result = autocrop(image, tolerance=t)
Autocrop ==
  /\ pc = "call"
  /\ \E t \in Tolerances : \E out \in autocrop(heap, 1, t) :
       /\ heap' = out.heap
       /\ calls' = Append(calls, CallRecord(out))
       /\ stderr' = stderr \o Printed(out)
  /\ pc' = "again"
  /\ UNCHANGED <<stdout, argv, args, fs, locals, exitStatus>>

\* autocrop(result, tolerance=t): autocrop on its own output, with the
\* tolerance of the first call
AutocropAgain ==
  /\ pc = "again"
  /\ \E out \in autocrop(heap, calls[1].result, calls[1].tolerance) :
       /\ heap' = out.heap
       /\ calls' = Append(calls, CallRecord(out))
       /\ stderr' = stderr \o Printed(out)
  /\ pc' = "done"
  /\ UNCHANGED <<stdout, argv, args, fs, locals, exitStatus>>

Next == Autocrop \/ AutocropAgain

Spec == Init /\ [][Next]_vars

----------------------------------------------------------------------------
(* main: the command-line run *)

\* a path is a record of the directory part, the stem and the suffix of its
\* last component; str(path) puts them together again
str(path) == path.parent \o path.stem \o path.suffix

\* Path.with_stem: the same path with another stem
with_stem(path, stem) == [path EXCEPT !.stem = stem]

Digits == <<"0", "1", "2", "3", "4", "5", "6", "7", "8", "9">>

IsDigit(ch) == \E d \in DOMAIN Digits : Digits[d] = ch
DigitValue(ch) == (CHOOSE d \in DOMAIN Digits : Digits[d] = ch) - 1

\* int(text) for a text given as its characters: defined on digit strings
IsInt(text) == text # <<>> /\ \A k \in DOMAIN text : IsDigit(text[k])

RECURSIVE ParseInt(_)
ParseInt(text) ==
  IF text = <<>> THEN 0
  ELSE 10 * ParseInt(SubSeq(text, 1, Len(text) - 1)) + DigitValue(text[Len(text)])

\* the content of a file: an encoded image, or bytes no decoder accepts
ImageFile(img) == [decodable |-> TRUE, image |-> img]
Garbage == [decodable |-> FALSE]

TRACEBACK == "Traceback (most recent call last):"
USAGE == "error: argument -t/--tolerance: invalid int value"

InputPaths ==
  { [parent |-> "", stem |-> "a", suffix |-> ".png"],
    [parent |-> "img/", stem |-> "b", suffix |-> ""] }

\* Path(""), the path of the empty string
EmptyPath == [parent |-> "", stem |-> "", suffix |-> ""]

\* the values given with -o: -o absent (args.output is None), -o with an
\* empty value, -o with a path
OutputOptions ==
  { <<>>, <<EmptyPath>>, << [parent |-> "", stem |-> "out", suffix |-> ".png"] >> }

\* the suffixes Image.save knows an encoder for
KnownSuffixes == {".png", ".jpg"}

\* the values given with -t, each as its characters: -t absent, "0", "10",
\* and a value that is no integer
ToleranceOptions == {<<>>, << <<"0">> >>, << <<"1", "0">> >>, << <<"1", "x">> >>}

FileSystems(path) ==
  {EmptyFs} \cup { [p \in {path} |-> content] :
                     content \in { ImageFile(img) : img \in Images(MainMaxPixels) }
                                   \cup {Garbage} }

InitMain ==
  /\ \E input \in InputPaths, output \in OutputOptions, t \in ToleranceOptions :
       /\ argv = [input |-> input, output |-> output, tolerance |-> t]
       /\ fs \in FileSystems(str(input))
  /\ heap = <<>>
  /\ calls = <<>>
  /\ stderr = <<>>
  /\ stdout = <<>>
  /\ pc = "parse"
  /\ args = NoArgs
  /\ locals = NoLocals
  /\ exitStatus = -1

\* -t is absent, or its value is one that type=int converts
ToleranceAccepted(av) == IF av.tolerance = <<>> THEN TRUE ELSE IsInt(av.tolerance[1])

\* args = parser.parse_args(), with -t converted by int
MainParseArgs ==
  /\ pc = "parse"
  /\ ToleranceAccepted(argv)
  /\ args' = [input |-> argv.input, output |-> argv.output,
              tolerance |-> IF argv.tolerance = <<>> THEN DefaultTolerance
                            ELSE ParseInt(argv.tolerance[1])]
  /\ pc' = "main"
  /\ UNCHANGED <<heap, calls, stderr, stdout, argv, fs, locals, exitStatus>>

\* parse_args rejects a -t value that int does not accept: usage error, exit 2
MainUsageError ==
  /\ pc = "parse"
  /\ ~ToleranceAccepted(argv)
  /\ stderr' = Append(stderr, USAGE)
  /\ exitStatus' = 2
  /\ pc' = "exit"
  /\ UNCHANGED <<heap, calls, stdout, argv, args, fs, locals>>

NotFoundMessage(src) == "Error: " \o str(src) \o " not found"

\* if not src.exists(): print the error and sys.exit(1)
MainNotFound ==
  /\ pc = "main"
  /\ str(args.input) \notin DOMAIN fs
  /\ stderr' = Append(stderr, NotFoundMessage(args.input))
  /\ exitStatus' = 1
  /\ pc' = "exit"
  /\ UNCHANGED <<heap, calls, stdout, argv, args, fs, locals>>

\* img = Image.open(src), the file being an image
MainOpen ==
  /\ pc = "main"
  /\ str(args.input) \in DOMAIN fs
  /\ fs[str(args.input)].decodable
  /\ heap' = Append(heap, fs[str(args.input)].image)
  /\ locals' = [locals EXCEPT !.img = Len(heap) + 1]
  /\ pc' = "opened"
  /\ UNCHANGED <<calls, stderr, stdout, argv, args, fs, exitStatus>>

\* img = Image.open(src), the file being no image: the decoder's exception
\* is not caught and ends the run
MainOpenFails ==
  /\ pc = "main"
  /\ str(args.input) \in DOMAIN fs
  /\ ~fs[str(args.input)].decodable
  /\ stderr' = Append(stderr, TRACEBACK)
  /\ exitStatus' = 1
  /\ pc' = "exit"
  /\ UNCHANGED <<heap, calls, stdout, argv, args, fs, locals>>

\* cropped = autocrop(img, tolerance=args.tolerance)
MainAutocrop ==
  /\ pc = "opened"
  /\ \E out \in autocrop(heap, locals.img, args.tolerance) :
       /\ heap' = out.heap
       /\ calls' = Append(calls, CallRecord(out))
       /\ stderr' = stderr \o Printed(out)
       /\ locals' = [locals EXCEPT !.cropped = out.result]
  /\ pc' = "cropped"
  /\ UNCHANGED <<stdout, argv, args, fs, exitStatus>>

\* the resolution with height and width exchanged
ResolutionSwapped(img) == ToString(img.h) \o "x" \o ToString(img.w)

\* f"{width}x{height}"
Resolution(img) == ToString(img.w) \o "x" \o ToString(img.h)

\* `if args.output:` an option is true unless it is None or the empty string
Truthy(option) == IF option = <<>> THEN FALSE ELSE str(option[1]) # ""

\* dst: Path(args.output) if args.output is true, else the input path with
\* "-{cropped.width}x{cropped.height}" appended to its stem
Destination(a, cropped) ==
  IF Truthy(a.output) THEN a.output[1]
  ELSE with_stem(a.input, a.input.stem \o "-" \o Resolution(cropped))

\* cropped.save(dst), the format being found from the suffix of dst and the
\* encoder writing the file
MainSave ==
  /\ pc = "cropped"
  /\ LET dst == Destination(args, heap[locals.cropped])
     IN /\ dst.suffix \in KnownSuffixes
        /\ fs' = [p \in DOMAIN fs \cup {str(dst)} |->
                    IF p = str(dst) THEN ImageFile(heap[locals.cropped]) ELSE fs[p]]
        /\ locals' = [locals EXCEPT !.dst = str(dst)]
  /\ pc' = "saved"
  /\ UNCHANGED <<heap, calls, stderr, stdout, argv, args, exitStatus>>

\* cropped.save(dst) raising (no encoder for the suffix, the file cannot be
\* written): the exception is not caught and ends the run
MainSaveFails ==
  /\ pc = "cropped"
  /\ stderr' = Append(stderr, TRACEBACK)
  /\ exitStatus' = 1
  /\ pc' = "exit"
  /\ UNCHANGED <<heap, calls, stdout, argv, args, fs, locals>>

\* f"{orig} -> {result}  saved to {dst}"
Report(img, cropped, dst) ==
  Resolution(img) \o " -> " \o Resolution(cropped) \o "  saved to " \o dst

\* print the report; main returns and the process exits with status 0
MainPrint ==
  /\ pc = "saved"
  /\ stdout' = Append(stdout, Report(heap[locals.img], heap[locals.cropped], locals.dst))
  /\ exitStatus' = 0
  /\ pc' = "exit"
  /\ UNCHANGED <<heap, calls, stderr, argv, args, fs, locals>>

NextMain ==
  \/ MainParseArgs
  \/ MainUsageError
  \/ MainNotFound
  \/ MainOpen
  \/ MainOpenFails
  \/ MainAutocrop
  \/ MainSave
  \/ MainSaveFails
  \/ MainPrint

SpecMain == InitMain /\ [][NextMain]_vars

----------------------------------------------------------------------------
(* What the claims speak of, stated without the operators of autocrop *)

\* the input image of call c and the image it returned
ImageOf(c) == heap[c.image]
ResultOf(c) == heap[c.result]

\* the RGB value of the pixel of img at coordinate xy
RGBAt(img, xy) == ConvertRGB(img.mode, img.px[xy])

\* pixel xy of img is foreground for background bg and tolerance t: some
\* channel's mathematical absolute difference exceeds t
IsForeground(img, xy, bg, t) ==
  \E ch \in 1 .. 3 : Abs(RGBAt(img, xy)[ch] - bg[ch]) > t

Foreground(img, bg, t) == { xy \in DOMAIN img.px : IsForeground(img, xy, bg, t) }

\* the corner positions top-left, top-right, bottom-left, bottom-right
CornerPositions(img) ==
  << <<0, 0>>, <<0, img.w - 1>>, <<img.h - 1, 0>>, <<img.h - 1, img.w - 1>> >>

\* how many of the four corners of img hold colour col
Occurrences(img, col) ==
  Cardinality({ i \in 1 .. 4 : RGBAt(img, CornerPositions(img)[i]) = col })

CornerColors(img) == { RGBAt(img, CornerPositions(img)[i]) : i \in 1 .. 4 }

MostCommonCorners(img) ==
  { col \in CornerColors(img) :
      \A other \in CornerColors(img) : Occurrences(img, col) >= Occurrences(img, other) }

\* two or more distinct corner colours share the maximal count
CornerTie(img) == Cardinality(MostCommonCorners(img)) >= 2

\* the first corner, in the order TL, TR, BL, BR, whose colour is most common
FirstMostCommonCorner(img) ==
  RGBAt(img, CornerPositions(img)[
    MinOf({ i \in 1 .. 4 : RGBAt(img, CornerPositions(img)[i]) \in MostCommonCorners(img) })])

\* the latest call of autocrop (every call is the latest in the state it
\* returns to)
Returned == calls # <<>>
LastCall == calls[Len(calls)]

\* the call made by the step that is being taken, if it made one
NewCall == calls'[Len(calls')]
MadeCall == Len(calls') = Len(calls) + 1

----------------------------------------------------------------------------
(* C1 *)

\* C1: whenever at least one pixel is foreground, autocrop crops to exactly
\* the minimal rectangle covering the foreground: x0/y0 are the least and
\* x1/y1 the greatest column/row of a foreground pixel, the rectangle handed
\* to crop is (x0, y0, x1+1, y1+1), no foreground pixel lies outside it and
\* each of its four edges holds a foreground pixel.
C1_MinimalBoundingBox ==
  Returned =>
    LET c  == LastCall
        fg == Foreground(ImageOf(c), c.bg, c.tolerance)
    IN fg # {} =>
         /\ ~c.warned
         /\ \A xy \in fg : /\ c.box[1] <= xy[2] /\ xy[2] <= c.box[3]
                           /\ c.box[2] <= xy[1] /\ xy[1] <= c.box[4]
         /\ \E xy \in fg : xy[2] = c.box[1]
         /\ \E xy \in fg : xy[1] = c.box[2]
         /\ \E xy \in fg : xy[2] = c.box[3]
         /\ \E xy \in fg : xy[1] = c.box[4]
         /\ c.rect = <<c.box[1], c.box[2], c.box[3] + 1, c.box[4] + 1>>
         /\ ResultOf(c).w = c.box[3] - c.box[1] + 1
         /\ ResultOf(c).h = c.box[4] - c.box[2] + 1

\* a 3 x 3 white image with a single black pixel at its centre, tolerance
\* 10: the box is that pixel alone and the result is 1 x 1
C1_Witness ==
  /\ Len(calls) >= 1
  /\ calls[1].tolerance = DefaultTolerance
  /\ calls[1].bg = White
  /\ ImageOf(calls[1]).h = 3 /\ ImageOf(calls[1]).w = 3
  /\ Foreground(ImageOf(calls[1]), White, DefaultTolerance) = {<<1, 1>>}
  /\ RGBAt(ImageOf(calls[1]), <<1, 1>>) = Black
  /\ calls[1].rect = <<1, 1, 2, 2>>
  /\ ResultOf(calls[1]).w = 1 /\ ResultOf(calls[1]).h = 1

----------------------------------------------------------------------------
(* C2 *)

\* C2: a call of autocrop emits the warning on the error stream exactly when
\* no pixel is foreground, and then (and only then) it returns the image it
\* was given, equal in dimensions and content to the input; it never fails.
C2_WarnAndReturnOriginal ==
  [][MadeCall =>
       LET c    == NewCall
           nofg == Foreground(heap[c.image], c.bg, c.tolerance) = {}
       IN /\ c.warned <=> nofg
          /\ nofg => /\ stderr' = Append(stderr, WARNING)
                     /\ heap'[c.result] = heap[c.image]
          /\ ~nofg => stderr' = stderr]_vars

\* a 2 x 2 image of white and near-white pixels, tolerance 10: warned, unchanged
C2_Witness ==
  /\ Len(calls) >= 1
  /\ calls[1].warned
  /\ calls[1].tolerance = DefaultTolerance
  /\ ImageOf(calls[1]).h = 2 /\ ImageOf(calls[1]).w = 2
  /\ \E xy \in DOMAIN ImageOf(calls[1]).px : RGBAt(ImageOf(calls[1]), xy) = Near
  /\ calls[1].bg = White
  /\ stderr = <<WARNING>>
  /\ ResultOf(calls[1]) = heap[1]

----------------------------------------------------------------------------
(* C3 *)

\* C3: detect_bg_color returns the colour of one of the four corners whose
\* number of occurrences among the four corners is maximal, also when w = 1
\* or h = 1; a colour held by 3 of the 4 corners is the one returned.
C3_MostCommonCorner ==
  Returned =>
    LET c == LastCall
    IN /\ c.bg \in CornerColors(ImageOf(c))
       /\ \A col \in CornerColors(ImageOf(c)) :
            Occurrences(ImageOf(c), c.bg) >= Occurrences(ImageOf(c), col)
       /\ \A col \in CornerColors(ImageOf(c)) :
            Occurrences(ImageOf(c), col) = 3 => c.bg = col

\* three corners of one colour and the fourth of another
C3_Witness ==
  /\ Len(calls) >= 1
  /\ ImageOf(calls[1]).h >= 2 /\ ImageOf(calls[1]).w >= 2
  /\ Occurrences(ImageOf(calls[1]), calls[1].bg) = 3
  /\ RGBAt(ImageOf(calls[1]), <<0, 0>>) # calls[1].bg

----------------------------------------------------------------------------
(* C4 *)

\* C4 as stated: when corner colours tie for the maximal count, the colour
\* returned is the tied colour that comes first in the order top-left,
\* top-right, bottom-left, bottom-right.
C4_FirstInCornerOrder ==
  (Returned /\ CornerTie(ImageOf(LastCall)))
    => LastCall.bg = FirstMostCommonCorner(ImageOf(LastCall))

\* C4 as amended: when corner colours tie for the maximal count, the colour
\* returned is one of the tied colours (which one is decided by the order in
\* which the set of distinct corner colours is iterated, not by the order of
\* the corners).
C4_OneOfTheTied ==
  (Returned /\ CornerTie(ImageOf(LastCall)))
    => LastCall.bg \in MostCommonCorners(ImageOf(LastCall))

\* corners white, white, black, black, and black is returned
C4_Witness ==
  /\ Len(calls) >= 1
  /\ ImageOf(calls[1]).h = 2 /\ ImageOf(calls[1]).w = 2
  /\ RGBAt(ImageOf(calls[1]), <<0, 0>>) = White
  /\ RGBAt(ImageOf(calls[1]), <<0, 1>>) = White
  /\ RGBAt(ImageOf(calls[1]), <<1, 0>>) = Black
  /\ RGBAt(ImageOf(calls[1]), <<1, 1>>) = Black
  /\ calls[1].bg = Black

----------------------------------------------------------------------------
(* C5 *)

\* the absolute difference autocrop computes for two 8-bit channel values is
\* their mathematical absolute difference, for every pair of values
WideningIsExact ==
  \A a \in 0 .. Range8 - 1 : \A b \in 0 .. Range8 - 1 : AbsDiff(<<a>>, <<b>>, 1) = Abs(a - b)

\* C5: the mask marks a pixel as foreground if and only if the mathematical
\* absolute difference from the background exceeds the tolerance (strictly)
\* on at least one of the three channels; no pair of 8-bit channel values
\* wraps around in the subtraction.
C5_MaskIsStrictAnyChannel ==
  /\ WideningIsExact
  /\ Returned =>
       \A xy \in DOMAIN ImageOf(LastCall).px :
         xy \in LastCall.coords
           <=> IsForeground(ImageOf(LastCall), xy, LastCall.bg, LastCall.tolerance)

\* background white, tolerance 10: a pixel differing by exactly 10 on one
\* channel is background, a black pixel (255 below the background) is foreground
C5_Witness ==
  /\ Len(calls) >= 1
  /\ calls[1].bg = White /\ calls[1].tolerance = DefaultTolerance
  /\ \E xy \in DOMAIN heap[1].px : RGBAt(heap[1], xy) = Near /\ xy \notin calls[1].coords
  /\ \E xy \in DOMAIN heap[1].px : RGBAt(heap[1], xy) = Black /\ xy \in calls[1].coords

----------------------------------------------------------------------------
(* C6 *)

\* C6 as stated: autocrop with tolerance 0 on its own output, when none of
\* the output's corners has the prior background colour, returns an image of
\* the same dimensions and content as that output.
C6_NoShrinkWhenCornersDiffer ==
  ( /\ Len(calls) = 2
    /\ calls[1].tolerance = 0 /\ calls[2].tolerance = 0
    /\ calls[1].bg \notin CornerColors(ResultOf(calls[1])) )
  => ResultOf(calls[2]) = ResultOf(calls[1])

\* C6 as amended: autocrop with tolerance 0 on the output of autocrop with
\* tolerance 0 returns an image of the same dimensions and content as that
\* output when the second run detects the same background colour as the first.
C6_NoShrinkWhenSameBackground ==
  ( /\ Len(calls) = 2
    /\ calls[1].tolerance = 0 /\ calls[2].tolerance = 0
    /\ calls[2].bg = calls[1].bg )
  => ResultOf(calls[2]) = ResultOf(calls[1])

\* the first run cropped, the second detected the same background again
C6_Witness ==
  /\ Len(calls) = 2
  /\ calls[1].tolerance = 0 /\ calls[2].tolerance = 0
  /\ ~calls[1].warned
  /\ ResultOf(calls[1]).w < heap[1].w
  /\ ResultOf(calls[1]).h = 2 /\ ResultOf(calls[1]).w = 2
  /\ calls[2].bg = calls[1].bg
  /\ ResultOf(calls[2]) = ResultOf(calls[1])

----------------------------------------------------------------------------
(* C7 *)

\* tolerances around every channel difference the model's colours can have
ProbeTolerances == {0, 9, 10, 244, 245, 255}

Inside(inner, outer) ==
  /\ outer[1] <= inner[1] /\ outer[2] <= inner[2]
  /\ inner[3] <= outer[3] /\ inner[4] <= outer[4]

\* C7: for the raster and background of a call with tolerance t1, the
\* foreground computed with any t2 >= t1 is a subset of the call's
\* foreground, and its crop rectangle, when there is one, lies inside the
\* call's crop rectangle.
C7_MonotoneInTolerance ==
  Returned =>
    \A t2 \in { t \in ProbeTolerances : LastCall.tolerance <= t } :
      \A fg2 \in { argwhere(ForegroundMask(ToArray(ImageOf(LastCall)), LastCall.bg, t2)) } :
        /\ fg2 \subseteq LastCall.coords
        /\ Cardinality(fg2) <= Cardinality(LastCall.coords)
        /\ fg2 # {} => /\ ~LastCall.warned
                       /\ Inside(CropRect(BoundingBox(fg2)), LastCall.rect)

\* tolerance 0 finds more foreground than tolerance 10 does, and a larger box
C7_Witness ==
  /\ Len(calls) >= 1
  /\ calls[1].tolerance = 0
  /\ LET fg2 == argwhere(ForegroundMask(ToArray(heap[1]), calls[1].bg, DefaultTolerance))
     IN /\ fg2 # {}
        /\ fg2 # calls[1].coords
        /\ CropRect(BoundingBox(fg2)) # calls[1].rect

----------------------------------------------------------------------------
(* C8 *)

\* C8: when autocrop crops, 0 <= x0 <= x1 <= w-1 and 0 <= y0 <= y1 <= h-1,
\* the result is (x1-x0+1) wide and (y1-y0+1) high, its pixel (i, j) is the
\* input's pixel (y0+i, x0+j), and it equals the input when the box covers
\* the whole image.
C8_CropGeometry ==
  Returned =>
    LET c   == LastCall
        img == ImageOf(c)
        res == ResultOf(c)
    IN ~c.warned =>
         /\ 0 <= c.box[1] /\ c.box[1] <= c.box[3] /\ c.box[3] <= img.w - 1
         /\ 0 <= c.box[2] /\ c.box[2] <= c.box[4] /\ c.box[4] <= img.h - 1
         /\ res.w = c.box[3] - c.box[1] + 1
         /\ res.h = c.box[4] - c.box[2] + 1
         /\ res.w >= 1 /\ res.h >= 1 /\ res.w <= img.w /\ res.h <= img.h
         /\ res.mode = img.mode
         /\ DOMAIN res.px = Grid(res.h, res.w)
         /\ \A ij \in DOMAIN res.px :
              res.px[ij] = img.px[<<c.box[2] + ij[1], c.box[1] + ij[2]>>]
         /\ c.box = <<0, 0, img.w - 1, img.h - 1>> => res = img

\* a crop away from the origin in both directions, more than one pixel wide
C8_Witness ==
  /\ Len(calls) >= 1
  /\ ~calls[1].warned
  /\ calls[1].box[1] >= 1 /\ calls[1].box[2] >= 1
  /\ calls[1].box[3] > calls[1].box[1]
  /\ ResultOf(calls[1]).px[<<0, 0>>] # ResultOf(calls[1]).px[<<0, 1>>]

----------------------------------------------------------------------------
(* C9 *)

\* C9 as stated: the raster autocrop returns is never the object it was
\* given, on the crop path and on the path that returns the original.
C9_ResultNeverAliasesInput ==
  \A i \in DOMAIN calls : calls[i].result # calls[i].image

\* C9 as amended: autocrop never mutates an existing image; when it crops,
\* the raster it returns is a new object; when the whole image matches the
\* background, the raster it returns is the very object it was given.
C9_NoMutationCopyOnlyOnCrop ==
  [][ /\ \A r \in DOMAIN heap : r \in DOMAIN heap' /\ heap'[r] = heap[r]
      /\ MadeCall =>
           IF NewCall.warned
           THEN NewCall.result = NewCall.image /\ heap' = heap
           ELSE NewCall.result \notin DOMAIN heap /\ NewCall.result \in DOMAIN heap' ]_vars

\* a first call that cropped, then a call that returned its input
C9_Witness ==
  /\ Len(calls) = 2
  /\ ~calls[1].warned /\ calls[1].result # calls[1].image
  /\ ResultOf(calls[1]) # heap[1]
  /\ calls[2].warned /\ calls[2].result = calls[2].image

----------------------------------------------------------------------------
(* C10 *)

\* the input path names a file, and the file is an image
InputExists == str(argv.input) \in DOMAIN fs
InputDecodable == InputExists /\ fs[str(argv.input)].decodable

\* the command line was accepted by the parser
Parsed == pc # "parse" /\ exitStatus # 2

Saved == locals.dst # None
Exited == pc = "exit"

\* "{w}x{h}" of an image
Dimensions(img) == ToString(img.w) \o "x" \o ToString(img.h)

\* the input path with "-{w}x{h}" of img appended to the stem
SuffixedInput(img) ==
  argv.input.parent \o argv.input.stem \o "-" \o Dimensions(img) \o argv.input.suffix

\* the steps happen in the order decode, autocrop, save, print
MainInOrder ==
  /\ calls # <<>> => locals.img # 0
  /\ locals.cropped # 0 <=> Len(calls) = 1
  /\ Saved => locals.cropped # 0 /\ locals.dst \in DOMAIN fs
  /\ stdout # <<>> => Saved
  /\ Len(calls) <= 1 /\ Len(stdout) <= 1

\* a missing input: an error message, a nonzero status, nothing else done
MainMissingInput ==
  (Exited /\ Parsed /\ ~InputExists) =>
    /\ exitStatus = 1
    /\ stderr = <<"Error: " \o argv.input.parent \o argv.input.stem
                    \o argv.input.suffix \o " not found">>
    /\ stdout = <<>> /\ heap = <<>> /\ calls = <<>>
    /\ fs = EmptyFs /\ locals = NoLocals

\* the run is at a line of main that can be executed
MainCanStep ==
  CASE pc = "parse"   -> ENABLED (MainParseArgs \/ MainUsageError)
    [] pc = "main"    -> ENABLED (MainNotFound \/ MainOpen \/ MainOpenFails)
    [] pc = "opened"  -> autocrop(heap, locals.img, args.tolerance) # {}
    [] pc = "cropped" -> ENABLED (MainSave \/ MainSaveFails)
    [] pc = "saved"   -> ENABLED MainPrint
    [] OTHER          -> FALSE

\* what a run that saved its result has done when it ends
MainReported(dst) ==
  /\ exitStatus = 0
  /\ locals.dst = dst
  /\ fs[dst] = ImageFile(heap[locals.cropped])
  /\ locals.cropped = calls[1].result
  /\ calls[1].image = locals.img
  /\ stdout = << Dimensions(heap[locals.img]) \o " -> "
                   \o Dimensions(heap[locals.cropped]) \o "  saved to " \o dst >>

\* C10 as stated (for a command line the parser accepts): a missing input
\* gives an error message and a nonzero status and nothing else; an input
\* that exists and decodes gives decode, autocrop, save, print in that
\* order and exit status 0, dst being the -o path when -o is given and
\* otherwise the input path with -{newW}x{newH} appended to the stem.
C10_RunAsStated ==
  /\ MainInOrder
  /\ MainMissingInput
  /\ (Exited /\ Parsed /\ InputDecodable) =>
       MainReported(IF argv.output # <<>> THEN str(argv.output[1])
                    ELSE SuffixedInput(heap[locals.cropped]))

\* C10 as amended: for a command line the parser accepts, a missing input
\* gives the error message and exit status 1 and nothing else; an input that
\* exists and decodes, when the save succeeds, gives decode, autocrop, save,
\* print in that order and exit status 0, dst being the -o path when -o is
\* given and not empty and otherwise the input path with -{newW}x{newH}
\* appended to the stem; when decoding or the save fails the run ends with a
\* nonzero status and nothing on standard output; a run that has not exited
\* has a next step to take.
C10_Run ==
  /\ MainInOrder
  /\ MainMissingInput
  /\ (Exited /\ Saved) =>
       /\ InputDecodable
       /\ MainReported(IF argv.output # <<>> /\ str(argv.output[1]) # ""
                       THEN str(argv.output[1])
                       ELSE SuffixedInput(heap[locals.cropped]))
  /\ (Exited /\ ~Saved) => exitStatus # 0 /\ stdout = <<>> /\ stderr # <<>>
  /\ ~Exited => exitStatus = -1 /\ MainCanStep

\* a 1 x 3 image cropped to 1 x 1 and saved under the derived name
C10_Witness ==
  /\ Exited
  /\ argv.output = <<>>
  /\ argv.tolerance = << <<"1", "0">> >>
  /\ args.tolerance = 10
  /\ stdout = <<"3x1 -> 1x1  saved to a-1x1.png">>
  /\ "a-1x1.png" \in DOMAIN fs
  /\ exitStatus = 0

====
